---- MODULE Spec2Model ----
(***************************************************************************)
(* Model of pokedexcli's response cache (internal/pokecache/cache.go):     *)
(* a map from string keys to cacheEntry{createdAt, val} guarded by one     *)
(* sync.Mutex, caller goroutines running Add and Get, and the reapLoop     *)
(* goroutine that NewCache starts, driven by a time.Ticker of period       *)
(* c.interval.                                                             *)
(*                                                                         *)
(* A []byte is modelled as what it is in Go: a reference to a backing      *)
(* array.  heap maps each backing array to its current contents, the cache *)
(* stores and returns references.                                          *)
(***************************************************************************)
EXTENDS Integers, FiniteSets, Sequences, TLC

\* ---------------------------------------------------------------- bounds
NThreads == 2
NBufs == 2
NVals == 2
MaxRetention == 2
MaxTime == 5

Threads == 1..NThreads
\* Two keys: every property below is about one key or a pair of distinct keys.
Keys == {1, 2}
Bufs == 1..NBufs
Vals == 1..NVals
\* The durations NewCache may be given: negative, zero and positive ones.
Retentions == (0 - 1)..MaxRetention

\* The goroutine started by `go cache.reapLoop()`; callers are 1..NThreads.
Reaper == 0
\* No call in progress.
NoKey == 0
\* The nil slice, returned by Get on a miss and the zero value of val.
NilBuf == 0

VARIABLES
    interval,   \* c.interval
    entries,    \* c.entries: a function whose domain is the set of keys present
    mu,         \* c.mu: the set of goroutines holding the mutex (empty = unlocked)
    heap,       \* contents of the callers' backing arrays
    now,        \* the clock read by time.Now / time.Since
    alive,      \* FALSE once an unrecovered panic has ended the process
    pc,         \* position of each caller goroutine
    key,        \* key argument of the call in progress
    buf,        \* val argument of the Add in progress
    ret,        \* what the Get in progress returns: [val, found], and the
                \* instant of its lookup (history); NoRet before the lookup
    rpc,        \* position of reapLoop
    todo,       \* keys the range loop of the current pass has yet to visit
    tickerC,    \* ticker.C, a channel of capacity 1: TRUE when a tick is buffered
    nextTick,   \* when the ticker fires next
    last,       \* history: per key, the cacheEntry literal of the latest Add
    old,        \* history: the val the Add in progress replaces (NilBuf: none)
    order,      \* history: per key, the val of the Add that last got past Lock
    \* main.go: the read-dispatch loop of func main and its commands
    mpc,        \* position of the main goroutine
    line,       \* inputParts of the line read last
    again,      \* history: the url whose body the command before this one, the
                \* same line, failed to decode, if still cached (else NoKey)
    url,        \* the command's local url (NoKey: none)
    data,       \* the command's local data / cachedData (NilBuf: none)
    config,     \* *config: [next, previous, locations]
    userPokedex,\* the names that are keys of userPokedex
    err,        \* what the callback returned ("" for nil)
    exited,     \* os.Exit has been called
    eof,        \* os.Stdin is exhausted
    nread,      \* the lines read from os.Stdin so far
    detail,     \* commandCatch: pokemonDetail
    draw,       \* commandCatch: randomValue
    looked,     \* history: the command's cache.Get: "", "called", "hit", "miss"
    reqs,       \* history: the http.Get calls of the command
    adds,       \* history: the cache.Add calls of the command
    resp,       \* history: the status of the response to its http.Get
    served,     \* history: the body of that response, if 200 and read in full
    snap        \* history: config and userPokedex when the command started

locals == <<url, data, detail, draw>>
history == <<looked, reqs, adds, resp, served, snap>>
scanned == <<line, again>>

input == <<eof, nread>>

mainVars == <<mpc, scanned, config, userPokedex, err, exited, input, locals, history>>

vars == <<interval, entries, mu, heap, now, alive, pc, key, buf, ret,
          rpc, todo, tickerC, nextTick, last, old, order, mainVars>>

NoRet == [val |-> NilBuf, found |-> FALSE, at |-> 0 - 1]
NoLast == [createdAt |-> 0 - 1, val |-> NilBuf]

\* cacheEntry
cacheEntry(t, v) == [createdAt |-> t, val |-> v]

Present(k) == k \in DOMAIN entries

\* m[k] = e
MapPut(m, k, e) == [x \in DOMAIN m \cup {k} |-> IF x = k THEN e ELSE m[x]]
\* Mutant: the map is cleared.
MapDeleteAll(m, k) == <<>>

\* delete(m, k)
MapDelete(m, k) == [x \in DOMAIN m \ {k} |-> m[x]]

\* time.Since(t)
Since(t) == now - t

\* Config{}: Next and Previous nil, no Locations.
NoConfig == [next |-> NoKey, previous |-> NoKey, locations |-> FALSE]

\* No pokemonDetail decoded, no response received.
NoDetail == [name |-> "", be |-> 0]
NoResp == 0

\* func main up to its loop: config := &Config{}, the empty userPokedex.
MainInit ==
    /\ mpc = "prompt"
    /\ line = <<>>
    /\ again = NoKey
    /\ url = NoKey
    /\ data = NilBuf
    /\ config = NoConfig
    /\ userPokedex = {}
    /\ err = ""
    /\ exited = FALSE
    /\ eof = FALSE
    /\ nread = 0
    /\ detail = NoDetail
    /\ draw = 0 - 1
    /\ looked = ""
    /\ reqs = 0
    /\ adds = 0
    /\ resp = NoResp
    /\ served = NilBuf
    /\ snap = [config |-> NoConfig, userPokedex |-> {}]

\* ---------------------------------------------------------------- NewCache
Init ==
    /\ interval \in Retentions
    /\ entries = <<>>
    /\ mu = {}
    /\ heap = [b \in Bufs |-> 1]
    /\ now = 0
    /\ alive = TRUE
    /\ pc = [t \in Threads |-> "idle"]
    /\ key = [t \in Threads |-> NoKey]
    /\ buf = [t \in Threads |-> NilBuf]
    /\ ret = [t \in Threads |-> NoRet]
    /\ rpc = "start"
    /\ todo = {}
    /\ tickerC = FALSE
    /\ nextTick = 0
    /\ last = [k \in Keys |-> NoLast]
    /\ old = [t \in Threads |-> NilBuf]
    /\ order = [k \in Keys |-> NilBuf]
    /\ MainInit

\* ---------------------------------------------------------------- sync.Mutex
\* Mutant: no mutual exclusion.
CanLockAlways(p) == TRUE

\* Mutant: the reaper does not wait for the mutex.
CanLockReaper(p) == p = Reaper \/ mu = {}

\* c.mu.Lock() succeeds only while nobody holds the mutex.
CanLock(p) == mu = {}
Lock(p) == mu \cup {p}
Unlock(p) == mu \ {p}

callerVars == <<pc, key, buf, ret>>
reaperVars == <<rpc, todo, tickerC, nextTick>>

\* ---------------------------------------------------------------- Add
\* A caller calls Add(k, b) and gets past c.mu.Lock().
AddLock(t, k, b) ==
    /\ alive /\ pc[t] = "idle"
    /\ CanLock(t)
    /\ mu' = Lock(t)
    /\ pc' = [pc EXCEPT ![t] = "add_ts"]
    /\ key' = [key EXCEPT ![t] = k]
    /\ buf' = [buf EXCEPT ![t] = b]
    /\ UNCHANGED <<interval, entries, heap, now, alive, ret, last, old>>
    /\ UNCHANGED reaperVars

\* Mutant: a key already present keeps its timestamp.
StoreCreatedAtKeepsOld(m, k, t) ==
    IF k \in DOMAIN m THEN m
    ELSE MapPut(m, k, cacheEntry(t, NilBuf))

\* The first word of the map slot written by c.entries[key] = cacheEntry{...}:
\* createdAt, from time.Now().  A key not yet present gets its slot here.
StoreCreatedAt(m, k, t) ==
    MapPut(m, k, cacheEntry(t, IF k \in DOMAIN m THEN m[k].val ELSE NilBuf))

\* Mutant: a val already there is kept (first writer wins).
StoreValKeepsFirst(m, k, v) ==
    IF k \in DOMAIN m /\ m[k].val = NilBuf
    THEN MapPut(m, k, cacheEntry(m[k].createdAt, v))
    ELSE m

\* The rest of the slot: val.
StoreVal(m, k, v) ==
    IF k \in DOMAIN m THEN MapPut(m, k, cacheEntry(m[k].createdAt, v)) ELSE m

AddStoreCreatedAt(t) ==
    /\ alive /\ pc[t] = "add_ts"
    /\ entries' = StoreCreatedAt(entries, key[t], now)
    /\ last' = [last EXCEPT ![key[t]] = cacheEntry(now, buf[t])]
    /\ old' = [old EXCEPT ![t] = IF key[t] \in DOMAIN entries
                                 THEN entries[key[t]].val ELSE NilBuf]
    /\ pc' = [pc EXCEPT ![t] = "add_val"]
    /\ UNCHANGED <<interval, mu, heap, now, alive, key, buf, ret>>
    /\ UNCHANGED reaperVars

AddStoreVal(t) ==
    /\ alive /\ pc[t] = "add_val"
    /\ entries' = StoreVal(entries, key[t], buf[t])
    /\ pc' = [pc EXCEPT ![t] = "add_unlock"]
    /\ UNCHANGED <<interval, mu, heap, now, alive, key, buf, ret, last, old>>
    /\ UNCHANGED reaperVars

AddUnlock(t) ==
    /\ alive /\ pc[t] = "add_unlock"
    /\ mu' = Unlock(t)
    /\ pc' = [pc EXCEPT ![t] = "idle"]
    /\ key' = [key EXCEPT ![t] = NoKey]
    /\ buf' = [buf EXCEPT ![t] = NilBuf]
    /\ old' = [old EXCEPT ![t] = NilBuf]
    /\ UNCHANGED <<interval, entries, heap, now, alive, ret, last>>
    /\ UNCHANGED reaperVars

\* ---------------------------------------------------------------- Get
\* A caller calls Get(k) and gets past c.mu.Lock().
GetLock(t, k) ==
    /\ alive /\ pc[t] = "idle"
    /\ CanLock(t)
    /\ mu' = Lock(t)
    /\ pc' = [pc EXCEPT ![t] = "get_lookup"]
    /\ key' = [key EXCEPT ![t] = k]
    /\ UNCHANGED <<interval, entries, heap, now, alive, buf, ret, last, old>>
    /\ UNCHANGED reaperVars

\* Mutant: expiry checked on read.
LookupChecksAge(m, k) ==
    IF k \in DOMAIN m /\ Since(m[k].createdAt) <= interval
    THEN [val |-> m[k].val, found |-> TRUE]
    ELSE [val |-> NilBuf, found |-> FALSE]

\* Mutant: found is not looked at.
LookupIgnoresFound(m, k) ==
    [val |-> IF k \in DOMAIN m THEN m[k].val ELSE NilBuf, found |-> TRUE]

\* entry, found := c.entries[key]; return nil, false / return entry.val, true
Lookup(m, k) ==
    IF k \in DOMAIN m
    THEN [val |-> m[k].val, found |-> TRUE]
    ELSE [val |-> NilBuf, found |-> FALSE]

\* Mutant: a hit refreshes the entry's createdAt.
GetLookupTouches(t) ==
    /\ alive /\ pc[t] = "get_lookup"
    /\ ret' = [ret EXCEPT ![t] = [val |-> Lookup(entries, key[t]).val,
                                  found |-> Lookup(entries, key[t]).found,
                                  at |-> now]]
    /\ entries' = IF key[t] \in DOMAIN entries
                  THEN MapPut(entries, key[t], cacheEntry(now, entries[key[t]].val))
                  ELSE entries
    /\ pc' = [pc EXCEPT ![t] = "get_unlock"]
    /\ UNCHANGED <<interval, mu, heap, now, alive, key, buf, last, old>>
    /\ UNCHANGED reaperVars

GetLookup(t) ==
    /\ alive /\ pc[t] = "get_lookup"
    /\ ret' = [ret EXCEPT ![t] = [val |-> Lookup(entries, key[t]).val,
                                  found |-> Lookup(entries, key[t]).found,
                                  at |-> now]]
    /\ pc' = [pc EXCEPT ![t] = "get_unlock"]
    /\ UNCHANGED <<interval, entries, mu, heap, now, alive, key, buf, last, old>>
    /\ UNCHANGED reaperVars

GetUnlock(t) ==
    /\ alive /\ pc[t] = "get_unlock"
    /\ mu' = Unlock(t)
    /\ pc' = [pc EXCEPT ![t] = "idle"]
    /\ key' = [key EXCEPT ![t] = NoKey]
    /\ ret' = [ret EXCEPT ![t] = NoRet]
    /\ UNCHANGED <<interval, entries, heap, now, alive, buf, last, old>>
    /\ UNCHANGED reaperVars

\* ---------------------------------------------------------------- callers
\* A caller, outside Add and Get, writes into one of its slices (b[i] = x).
CallerWrite(t, b, v) ==
    /\ alive /\ pc[t] = "idle"
    /\ heap[b] # v
    /\ heap' = [heap EXCEPT ![b] = v]
    /\ UNCHANGED <<interval, entries, mu, now, alive, last, old>>
    /\ UNCHANGED callerVars
    /\ UNCHANGED reaperVars

\* ---------------------------------------------------------------- reapLoop
\* time.NewTicker(d) panics when d <= 0; the panic is in a goroutine that
\* recovers nothing, so it ends the process.
NewTickerPanics(d) == d <= 0

ReapStart ==
    /\ alive /\ rpc = "start"
    /\ IF NewTickerPanics(interval)
       THEN /\ alive' = FALSE
            /\ UNCHANGED <<rpc, nextTick>>
       ELSE /\ rpc' = "wait"
            /\ nextTick' = now + interval
            /\ UNCHANGED alive
    /\ UNCHANGED <<interval, entries, mu, heap, now, todo, tickerC, last, old>>
    /\ UNCHANGED callerVars

\* <-ticker.C
ReapReceive ==
    /\ alive /\ rpc = "wait"
    /\ tickerC
    /\ tickerC' = FALSE
    /\ rpc' = "lock"
    /\ UNCHANGED <<interval, entries, mu, heap, now, alive, todo, nextTick, last, old>>
    /\ UNCHANGED callerVars

ReapLock ==
    /\ alive /\ rpc = "lock"
    /\ CanLock(Reaper)
    /\ mu' = Lock(Reaper)
    /\ todo' = DOMAIN entries
    /\ rpc' = "scan"
    /\ UNCHANGED <<interval, entries, heap, now, alive, tickerC, nextTick, last, old>>
    /\ UNCHANGED callerVars

\* Mutant: the comparison inverted.
ExpiredInverted(e) == Since(e.createdAt) < interval

\* Mutant: twice the interval.
ExpiredLate(e) == Since(e.createdAt) > 2 * interval

\* Mutant: >= for >.
ExpiredAtInterval(e) == Since(e.createdAt) >= interval

\* time.Since(entry.createdAt) > c.interval
Expired(e) == Since(e.createdAt) > interval

\* One iteration of the range loop; Go visits the keys in no fixed order.
ReapVisit(k) ==
    /\ alive /\ rpc = "scan"
    /\ k \in todo
    /\ todo' = todo \ {k}
    /\ entries' = IF k \in DOMAIN entries /\ Expired(entries[k])
                  THEN MapDelete(entries, k)
                  ELSE entries
    /\ UNCHANGED <<interval, mu, heap, now, alive, rpc, tickerC, nextTick, last, old>>
    /\ UNCHANGED callerVars

ReapUnlock ==
    /\ alive /\ rpc = "scan"
    /\ todo = {}
    /\ mu' = Unlock(Reaper)
    /\ rpc' = "wait"
    /\ UNCHANGED <<interval, entries, heap, now, alive, todo, tickerC, nextTick, last, old>>
    /\ UNCHANGED callerVars

\* ---------------------------------------------------------------- the clock
\* One unit of time passes.  A running ticker whose period has elapsed puts a
\* tick into ticker.C, or drops it when the channel still holds one.
Tick ==
    /\ alive /\ now < MaxTime
    /\ now' = now + 1
    /\ IF rpc # "start" /\ now + 1 = nextTick
       THEN /\ tickerC' = TRUE
            /\ nextTick' = nextTick + interval
       ELSE UNCHANGED <<tickerC, nextTick>>
    /\ UNCHANGED <<interval, entries, mu, heap, alive, rpc, todo, last, old>>
    /\ UNCHANGED callerVars

\* The reaper is prompt: it takes each tick and finishes its pass before the
\* clock moves on.
ReaperIdle == rpc = "wait" /\ ~tickerC

TickPrompt == ReaperIdle /\ Tick

\* ---------------------------------------------------------------- specifications
\* Add, with the order of lock acquisition recorded.
AddLockOrdered(t, k, b) ==
    /\ AddLock(t, k, b)
    /\ order' = [order EXCEPT ![k] = b]

\* A step of the cache or its callers outside func main.
CacheOnly == UNCHANGED <<order, mainVars>>

Next ==
    \/ \E t \in Threads, k \in Keys, b \in Bufs : AddLockOrdered(t, k, b) /\ UNCHANGED mainVars
    \/ \E t \in Threads : AddStoreCreatedAt(t) /\ CacheOnly
    \/ \E t \in Threads : AddStoreVal(t) /\ CacheOnly
    \/ \E t \in Threads : AddUnlock(t) /\ CacheOnly
    \/ \E t \in Threads, k \in Keys : GetLock(t, k) /\ CacheOnly
    \/ \E t \in Threads : GetLookup(t) /\ CacheOnly
    \/ \E t \in Threads : GetUnlock(t) /\ CacheOnly
    \/ ReapStart /\ CacheOnly
    \/ ReapReceive /\ CacheOnly
    \/ ReapLock /\ CacheOnly
    \/ \E k \in Keys : ReapVisit(k) /\ CacheOnly
    \/ ReapUnlock /\ CacheOnly
    \/ Tick /\ CacheOnly

Spec == Init /\ [][Next]_vars

\* The same program with a prompt reaper.
NextPrompt ==
    \/ \E t \in Threads, k \in Keys, b \in Bufs : AddLockOrdered(t, k, b) /\ UNCHANGED mainVars
    \/ \E t \in Threads : AddStoreCreatedAt(t) /\ CacheOnly
    \/ \E t \in Threads : AddStoreVal(t) /\ CacheOnly
    \/ \E t \in Threads : AddUnlock(t) /\ CacheOnly
    \/ \E t \in Threads, k \in Keys : GetLock(t, k) /\ CacheOnly
    \/ \E t \in Threads : GetLookup(t) /\ CacheOnly
    \/ \E t \in Threads : GetUnlock(t) /\ CacheOnly
    \/ ReapStart /\ CacheOnly
    \/ ReapReceive /\ CacheOnly
    \/ ReapLock /\ CacheOnly
    \/ \E k \in Keys : ReapVisit(k) /\ CacheOnly
    \/ ReapUnlock /\ CacheOnly
    \/ TickPrompt /\ CacheOnly

SpecPrompt == Init /\ [][NextPrompt]_vars

\* The same program, made with a positive interval, with callers that write
\* into their slices.
NextCaller ==
    \/ \E t \in Threads, k \in Keys, b \in Bufs : AddLockOrdered(t, k, b) /\ UNCHANGED mainVars
    \/ \E t \in Threads : AddStoreCreatedAt(t) /\ CacheOnly
    \/ \E t \in Threads : AddStoreVal(t) /\ CacheOnly
    \/ \E t \in Threads : AddUnlock(t) /\ CacheOnly
    \/ \E t \in Threads, k \in Keys : GetLock(t, k) /\ CacheOnly
    \/ \E t \in Threads : GetLookup(t) /\ CacheOnly
    \/ \E t \in Threads : GetUnlock(t) /\ CacheOnly
    \/ \E t \in Threads, b \in Bufs, v \in Vals : CallerWrite(t, b, v) /\ CacheOnly
    \/ ReapStart /\ CacheOnly
    \/ ReapReceive /\ CacheOnly
    \/ ReapLock /\ CacheOnly
    \/ \E k \in Keys : ReapVisit(k) /\ CacheOnly
    \/ ReapUnlock /\ CacheOnly
    \/ Tick /\ CacheOnly

\* NewCache with a positive interval.
InitCaller == Init /\ interval > 0

SpecCaller == InitCaller /\ [][NextCaller]_vars

\* ================================================================ main.go
\* The main goroutine, as a caller of the cache.
Main == 1

\* time.Minute * 5, in units of the model's clock.
FiveMinutes == 1

\* The clock of the program stops here.
MaxReplTime == 2

\* The lines os.Stdin holds at most.
MaxInput == 3

cacheVars == <<interval, entries, mu, heap, now, alive, callerVars, reaperVars,
               last, old, order>>

\* The request URLs: the base listing, the listing of another page, the
\* location area of a name, the pokemon of a name.
BaseUrl == 1
PageUrl == 2
ExploreUrl(n) == 3
PokemonUrl(n) == 4

LocationNames == {"canalave"}
Names == {"pikachu", "mew"}

\* The keys main.go gives to the cache.
Urls == {BaseUrl, PageUrl} \cup {ExploreUrl(n) : n \in LocationNames}

\* A JSON null, a key the JSON object does not have.
Null == NoKey
Absent == 0 - 1

\* The response bodies, by what encoding/json makes of them.  valid: the
\* bytes are well-formed JSON; cfgErr / locErr: some value has the wrong type
\* for Config / for the locationData of printPokemonFromLocation.
Content == <<
    \* 1: the first page of the listing
    [valid |-> TRUE, cfgErr |-> FALSE, locErr |-> FALSE,
     next |-> PageUrl, previous |-> Null, results |-> "some"],
    \* 2: the last page of the listing
    [valid |-> TRUE, cfgErr |-> FALSE, locErr |-> FALSE,
     next |-> Null, previous |-> BaseUrl, results |-> "some"],
    \* 3: not JSON
    [valid |-> FALSE, cfgErr |-> FALSE, locErr |-> FALSE,
     next |-> Absent, previous |-> Absent, results |-> "absent"],
    \* 4: {"next": "<PageUrl>", "results": [{"name": "a", "url": "b"}, 5]}
    [valid |-> TRUE, cfgErr |-> TRUE, locErr |-> FALSE,
     next |-> PageUrl, previous |-> Absent, results |-> "some"],
    \* 5: {"pokemon_encounters": 5}
    [valid |-> TRUE, cfgErr |-> FALSE, locErr |-> TRUE,
     next |-> Absent, previous |-> Absent, results |-> "absent"] >>

Bodies == DOMAIN Content

\* What the remote service may answer for a URL.
Serves(u) ==
    IF u = BaseUrl THEN {1, 3, 4}
    ELSE IF u = PageUrl THEN {2, 3}
    ELSE {1, 5}

StatusOK == 200
StatusCodes == {StatusOK, 404}

\* Mutant: the status is not looked at.
IsOKAny(code) == TRUE

\* response.StatusCode != http.StatusOK
IsOK(code) == code = StatusOK

\* json.Unmarshal(data, config): bytes that are not JSON leave config alone;
\* otherwise every key present is assigned, a value of the wrong type is
\* skipped and reported at the end.
Unmarshal(b, c) ==
    LET j == Content[b] IN
    IF ~j.valid
    THEN [config |-> c, err |-> TRUE]
    ELSE [config |->
             [next |-> IF j.next = Absent THEN c.next ELSE j.next,
              previous |-> IF j.previous = Absent THEN c.previous ELSE j.previous,
              locations |-> IF j.results = "absent" THEN c.locations
                            ELSE j.results = "some"],
          err |-> j.cfgErr]

\* json.Unmarshal(data, &locationData) fails.
LocationFails(b) == ~Content[b].valid \/ Content[b].locErr

\* Go's int, scaled to IntBits bits, and its wrap-around.
IntBits == 8
MinInt == 0 - 2 ^ (IntBits - 1)
MaxInt == 2 ^ (IntBits - 1) - 1
WrapInt(x) == ((x - MinInt) % 2 ^ IntBits) + MinInt

\* catchChance := 100 - pokemonDetail.BaseExperience
CatchChance(be) == WrapInt(100 - be)

\* inputParts[0], inputParts[1:]
Cmd == IF line = <<>> THEN "" ELSE Head(line)
Args == IF line = <<>> THEN <<>> ELSE Tail(line)

\* The keys of the commands map.
Commands == {"help", "exit", "map", "mapb", "explore", "catch", "inspect",
             "pokedex"}

\* The lines a user may type, as strings.Fields splits them.
Lines ==
    {<<>>, <<"bogus">>, <<"help">>, <<"exit">>, <<"pokedex">>,
     <<"map">>, <<"mapb">>, <<"explore">>, <<"catch">>, <<"inspect">>}
    \cup {<<"explore", n>> : n \in LocationNames}
    \cup {<<"catch", n>> : n \in Names}
    \cup {<<"inspect", n>> : n \in Names}

\* The lines tried next to the cache: one name for catch and inspect.
FewLines == {l \in Lines : Len(l) < 2 \/ l[2] # "mew"}

\* Mutant: an error ends the loop.
ReturnFatal(e) ==
    /\ err' = e
    /\ mpc' = IF e = "" THEN "prompt" ELSE "fatal"

\* The callback returns e; the loop prints it and the prompt.
Return(e) ==
    /\ err' = e
    /\ mpc' = "prompt"

\* ---------------------------------------------------------------- the loop
\* scanner.Scan(); input := scanner.Text(); strings.Fields(input)
Scan(l) ==
    /\ alive /\ mpc = "prompt"
    /\ line' = l
    /\ again' = IF /\ l = line /\ Cmd \in {"map", "mapb", "explore"}
                   /\ err = "decode" /\ url \in DOMAIN entries
                THEN url ELSE NoKey
    /\ mpc' = "dispatch"
    /\ err' = ""
    /\ url' = NoKey /\ data' = NilBuf
    /\ detail' = NoDetail /\ draw' = 0 - 1
    /\ looked' = "" /\ reqs' = 0 /\ adds' = 0
    /\ resp' = NoResp /\ served' = NilBuf
    /\ snap' = [config |-> config, userPokedex |-> userPokedex]
    /\ UNCHANGED <<config, userPokedex, exited>>
    /\ UNCHANGED cacheVars

\* os.Stdin holds at most MaxInput lines.
ReadLine(l) ==
    /\ ~eof /\ nread < MaxInput
    /\ Scan(l)
    /\ nread' = nread + 1
    /\ UNCHANGED eof

\* At end of input Scan returns false and Text() is empty, again and again.
ReadEof ==
    /\ Scan(<<>>)
    /\ eof' = TRUE
    /\ UNCHANGED nread

\* An empty line, or a name that is no key of commands.
UnknownCommand ==
    /\ alive /\ mpc = "dispatch"
    /\ Cmd \notin Commands
    /\ mpc' = "prompt"
    /\ UNCHANGED <<scanned, config, userPokedex, err, exited, input, locals, history>>
    /\ UNCHANGED cacheVars

\* The callbacks of explore, catch and inspect without an argument.
MissingArg ==
    /\ alive /\ mpc = "dispatch"
    /\ Cmd \in {"explore", "catch", "inspect"}
    /\ Len(Args) < 1
    /\ Return("please provide")
    /\ UNCHANGED <<scanned, config, userPokedex, exited, input, locals, history>>
    /\ UNCHANGED cacheVars

commandHelp ==
    /\ alive /\ mpc = "dispatch"
    /\ Cmd = "help"
    /\ Return("")
    /\ UNCHANGED <<scanned, config, userPokedex, exited, input, locals, history>>
    /\ UNCHANGED cacheVars

\* os.Exit(0)
commandExit ==
    /\ alive /\ mpc = "dispatch"
    /\ Cmd = "exit"
    /\ exited' = TRUE
    /\ alive' = FALSE
    /\ UNCHANGED <<mpc, scanned, config, userPokedex, err, input, locals, history>>
    /\ UNCHANGED <<interval, entries, mu, heap, now, callerVars, reaperVars,
                   last, old, order>>

commandPokedex ==
    /\ alive /\ mpc = "dispatch"
    /\ Cmd = "pokedex"
    /\ Return("")
    /\ UNCHANGED <<scanned, config, userPokedex, exited, input, locals, history>>
    /\ UNCHANGED cacheVars

\* Caught or not, inspect prints and returns nil.
commandInspect ==
    /\ alive /\ mpc = "dispatch"
    /\ Cmd = "inspect" /\ Len(Args) >= 1
    /\ Return("")
    /\ UNCHANGED <<scanned, config, userPokedex, exited, input, locals, history>>
    /\ UNCHANGED cacheVars

\* ---------------------------------------------------------------- commandMap
\* Mutant: the base URL is used only while there is no next link.
MapUrlNextFirst(c) ==
    IF c.next # NoKey THEN c.next
    ELSE IF ~c.locations THEN BaseUrl
    ELSE NoKey

\* Mutant: without a next link the listing starts over.
MapUrlStartsOver(c) ==
    IF ~c.locations THEN BaseUrl
    ELSE IF c.next # NoKey THEN c.next
    ELSE BaseUrl

\* The url commandMap asks for; NoKey: "no more location areas to display".
MapUrl(c) ==
    IF ~c.locations THEN BaseUrl
    ELSE IF c.next # NoKey THEN c.next
    ELSE NoKey

\* The url commandMapBack asks for; NoKey: "no previous locations available".
MapBackUrl(c) == c.previous

\* The first lines of commandMap, commandMapBack and commandExplore.
ChooseUrl(u, e) ==
    /\ IF u = NoKey
       THEN /\ Return(e)
            /\ UNCHANGED url
       ELSE /\ url' = u
            /\ mpc' = "get"
            /\ UNCHANGED err
    /\ UNCHANGED <<scanned, config, userPokedex, exited, input, data, detail, draw,
                   history>>
    /\ UNCHANGED cacheVars

commandMap ==
    /\ alive /\ mpc = "dispatch"
    /\ Cmd = "map"
    /\ ChooseUrl(MapUrl(config), "no more")

commandMapBack ==
    /\ alive /\ mpc = "dispatch"
    /\ Cmd = "mapb"
    /\ ChooseUrl(MapBackUrl(config), "no previous")

commandExplore ==
    /\ alive /\ mpc = "dispatch"
    /\ Cmd = "explore" /\ Len(Args) >= 1
    /\ ChooseUrl(ExploreUrl(Args[1]), "")

\* cachedData, found := cache.Get(url): the call,
CacheGet ==
    /\ mpc = "get"
    /\ GetLock(Main, url)
    /\ mpc' = "in_get"
    /\ looked' = "called"
    /\ UNCHANGED <<scanned, config, userPokedex, err, exited, input, locals,
                   reqs, adds, resp, served, snap, order>>

\* and the return: a hit goes on to decode cachedData, a miss to http.Get.
CacheGetReturn ==
    /\ mpc = "in_get"
    /\ IF ret[Main].found
       THEN /\ data' = ret[Main].val
            /\ looked' = "hit"
            /\ mpc' = "decode"
       ELSE /\ looked' = "miss"
            /\ mpc' = "request"
            /\ UNCHANGED data
    /\ GetUnlock(Main)
    /\ UNCHANGED <<scanned, config, userPokedex, err, exited, input, url, detail,
                   draw, reqs, adds, resp, served, snap, order>>

\* http.Get(url) returns an error.
HttpGetFails ==
    /\ alive /\ mpc = "request"
    /\ reqs' = reqs + 1
    /\ Return("transport")
    /\ UNCHANGED <<scanned, config, userPokedex, exited, input, locals,
                   looked, adds, resp, served, snap>>
    /\ UNCHANGED cacheVars

\* http.Get(url) returns a response with a status and the body b;
\* io.ReadAll(response.Body) reads it all or fails on the way.
HttpGetResponds(code, b, readAll) ==
    /\ alive /\ mpc = "request"
    /\ reqs' = reqs + 1
    /\ resp' = code
    /\ served' = IF code = StatusOK /\ readAll THEN b ELSE NilBuf
    /\ IF ~IsOK(code)
       THEN /\ Return("status")
            /\ UNCHANGED data
       ELSE IF ~readAll
       THEN /\ Return("read")
            /\ UNCHANGED data
       ELSE /\ data' = b
            /\ mpc' = "add"
            /\ UNCHANGED err
    /\ UNCHANGED <<scanned, config, userPokedex, exited, input, url, detail, draw,
                   looked, adds, snap>>
    /\ UNCHANGED cacheVars

\* cache.Add(url, data): the call,
CacheAdd ==
    /\ mpc = "add"
    /\ AddLockOrdered(Main, url, data)
    /\ mpc' = "in_add"
    /\ adds' = adds + 1
    /\ UNCHANGED <<scanned, config, userPokedex, err, exited, input, locals,
                   looked, reqs, resp, served, snap>>

\* and the return.
CacheAddReturn ==
    /\ mpc = "in_add"
    /\ AddUnlock(Main)
    /\ mpc' = "decode"
    /\ UNCHANGED <<scanned, config, userPokedex, err, exited, input, locals,
                   history, order>>

\* The steps of Get and Add between call and return.
CacheInside ==
    /\ \/ GetLookup(Main)
       \/ AddStoreCreatedAt(Main)
       \/ AddStoreVal(Main)
    /\ CacheOnly

\* err := json.Unmarshal(data, config) in commandMap and commandMapBack
DecodeConfig ==
    /\ alive /\ mpc = "decode"
    /\ Cmd \in {"map", "mapb"}
    /\ config' = Unmarshal(data, config).config
    /\ Return(IF Unmarshal(data, config).err THEN "decode" ELSE "")
    /\ UNCHANGED <<scanned, userPokedex, exited, input, locals, history>>
    /\ UNCHANGED cacheVars

printPokemonFromLocation ==
    /\ alive /\ mpc = "decode"
    /\ Cmd = "explore"
    /\ Return(IF LocationFails(data) THEN "decode" ELSE "")
    /\ UNCHANGED <<scanned, config, userPokedex, exited, input, locals, history>>
    /\ UNCHANGED cacheVars

\* ---------------------------------------------------------------- commandCatch
\* http.Get(url) returns an error.
CatchGetFails ==
    /\ alive /\ mpc = "dispatch"
    /\ Cmd = "catch" /\ Len(Args) >= 1
    /\ url' = PokemonUrl(Args[1])
    /\ reqs' = reqs + 1
    /\ Return("transport")
    /\ UNCHANGED <<scanned, config, userPokedex, exited, input, data, detail, draw,
                   looked, adds, resp, served, snap>>
    /\ UNCHANGED cacheVars

\* http.Get(url) returns a response; its body decodes to d, or does not.
CatchGetResponds(code, decodes, d) ==
    /\ alive /\ mpc = "dispatch"
    /\ Cmd = "catch" /\ Len(Args) >= 1
    /\ url' = PokemonUrl(Args[1])
    /\ reqs' = reqs + 1
    /\ resp' = code
    /\ IF ~IsOK(code)
       THEN /\ Return("status")
            /\ UNCHANGED detail
       ELSE IF ~decodes
       THEN /\ Return("decode")
            /\ UNCHANGED detail
       ELSE /\ detail' = d
            /\ mpc' = "throw"
            /\ UNCHANGED err
    /\ UNCHANGED <<scanned, config, userPokedex, exited, input, data, draw,
                   looked, adds, served, snap>>
    /\ UNCHANGED cacheVars

\* randomValue := rng.Intn(100); if randomValue < catchChance { ... }
CatchThrow(r) ==
    /\ alive /\ mpc = "throw"
    /\ draw' = r
    /\ userPokedex' = IF r < CatchChance(detail.be)
                      THEN userPokedex \cup {detail.name}
                      ELSE userPokedex
    /\ Return("")
    /\ UNCHANGED <<scanned, config, exited, input, url, data, detail, history>>
    /\ UNCHANGED cacheVars

\* ---------------------------------------------------------------- the program
\* cache := pokecache.NewCache(time.Minute * 5), then the loop.
InitRepl ==
    /\ interval = FiveMinutes
    /\ entries = <<>>
    /\ mu = {}
    /\ heap = [b \in Bufs |-> 1]
    /\ now = 0
    /\ alive = TRUE
    /\ pc = [t \in {Main} |-> "idle"]
    /\ key = [t \in {Main} |-> NoKey]
    /\ buf = [t \in {Main} |-> NilBuf]
    /\ ret = [t \in {Main} |-> NoRet]
    /\ rpc = "start"
    /\ todo = {}
    /\ tickerC = FALSE
    /\ nextTick = 0
    /\ last = [k \in Urls |-> NoLast]
    /\ old = [t \in {Main} |-> NilBuf]
    /\ order = [k \in Urls |-> NilBuf]
    /\ MainInit

\* The draws and base experiences tried next to the cache.
FewDraws == {0, 99}
FewDetails == {[name |-> "pikachu", be |-> e] : e \in {0, 100}}

NextRepl ==
    \/ \E l \in FewLines : ReadLine(l)
    \/ ReadEof
    \/ UnknownCommand
    \/ MissingArg
    \/ commandHelp
    \/ commandExit
    \/ commandPokedex
    \/ commandInspect
    \/ commandMap
    \/ commandMapBack
    \/ commandExplore
    \/ CacheGet
    \/ CacheGetReturn
    \/ HttpGetFails
    \/ \E code \in StatusCodes, b \in Serves(url), readAll \in BOOLEAN :
           HttpGetResponds(code, b, readAll)
    \/ CacheAdd
    \/ CacheAddReturn
    \/ CacheInside
    \/ DecodeConfig
    \/ printPokemonFromLocation
    \/ CatchGetFails
    \/ \E code \in StatusCodes, decodes \in BOOLEAN, d \in FewDetails :
           CatchGetResponds(code, decodes, d)
    \/ \E r \in FewDraws : CatchThrow(r)
    \/ ReapStart /\ CacheOnly
    \/ ReapReceive /\ CacheOnly
    \/ ReapLock /\ CacheOnly
    \/ \E k \in Urls : ReapVisit(k) /\ CacheOnly
    \/ ReapUnlock /\ CacheOnly
    \/ now < MaxReplTime /\ Tick /\ CacheOnly

SpecRepl == InitRepl /\ [][NextRepl]_vars

\* The commands of the caught collection alone, with every draw of
\* rng.Intn(100) and base experiences over the whole range of int.
CatchLines == {l \in Lines : l # <<>> /\ Head(l) \in {"catch", "inspect", "pokedex"}}
Draws == 0..99
BaseExperiences == {MinInt, 0 - 1, 0, 1, 99, 100, MaxInt}
Details == {[name |-> n, be |-> e] : n \in Names, e \in BaseExperiences}

NextCatch ==
    \/ \E l \in CatchLines : ReadLine(l)
    \/ MissingArg
    \/ commandPokedex
    \/ commandInspect
    \/ CatchGetFails
    \/ \E code \in StatusCodes, decodes \in BOOLEAN, d \in Details :
           CatchGetResponds(code, decodes, d)
    \/ \E r \in Draws : CatchThrow(r)

SpecCatch == InitRepl /\ [][NextCatch]_vars

\* ================================================================ properties
\* A Get of thread t has returned (its deferred Unlock is still to run).
Returned(t) == pc[t] = "get_unlock"

\* What it returned.
Result(t) == [val |-> ret[t].val, found |-> ret[t].found]
Hit(v) == [val |-> v, found |-> TRUE]
Miss == [val |-> NilBuf, found |-> FALSE]

\* An Add has been made for k.
Added(k) == last[k] # NoLast

\* Time from the latest Add of the key to the lookup of t's Get.
Waited(t) == ret[t].at - last[key[t]].createdAt

\* An Add is between its two writes to the slot of k.
MidStore(k) == \E t \in Threads : pc[t] = "add_val" /\ key[t] = k

\* C1 Insert-then-read: a Get(k) whose lookup is at the instant of the latest
\* Add(k, v), whatever the reaper did in between, returns (v, true).
C1_InsertThenRead ==
    \A t \in Threads :
        (Returned(t) /\ Added(key[t]) /\ Waited(t) = 0)
            => Result(t) = Hit(last[key[t]].val)

\* C1's case: time has passed, the reaper is running, and a Get directly
\* after an Add returned the slice added.
C1_Witness ==
    \E t \in Threads :
        /\ Returned(t) /\ Added(key[t])
        /\ Waited(t) = 0 /\ ret[t].at > 0
        /\ rpc # "start"
        /\ Result(t) = Hit(last[key[t]].val)

\* C2 Miss on unknown key: Get(k) for a key with no entry, never added or
\* added and since swept, returns (nil, false).
C2_MissOnUnknownKey ==
    \A t \in Threads :
        (Returned(t) /\ key[t] \notin DOMAIN entries) => Result(t) = Miss

\* C2's case: a Get of a key that was added and has been swept.
C2_Witness ==
    \E t \in Threads :
        /\ Returned(t) /\ Added(key[t])
        /\ key[t] \notin DOMAIN entries
        /\ Result(t) = Miss

\* C3 Overwrite replaces value and resets age: outside the critical section
\* of an Add, the entry of a key is the literal of the latest Add of that
\* key, payload and timestamp together, and a Get that finds the key
\* returns that payload.
C3_OverwriteReplaces ==
    /\ \A k \in DOMAIN entries : ~MidStore(k) => entries[k] = last[k]
    /\ \A t \in Threads :
           (Returned(t) /\ ret[t].found) => ret[t].val = last[key[t]].val

\* C3's case: an Add has replaced an entry holding another payload, written
\* at an earlier time.
C3_Witness ==
    \E t \in Threads :
        /\ pc[t] = "add_unlock"
        /\ old[t] # NilBuf /\ old[t] # buf[t]
        /\ entries[key[t]] = cacheEntry(now, buf[t])
        /\ now > 0

\* C4 Sweep evicts after retention elapses (prompt reaper, retention T > 0):
\* a Get(k) more than 2T after the latest Add(k) misses, no entry is older
\* than 2T, and every entry a pass has visited and left is not older than T.
C4_SweepEvicts ==
    interval > 0 =>
        /\ \A t \in Threads :
               (Returned(t) /\ Added(key[t]) /\ Waited(t) > 2 * interval)
                   => Result(t) = Miss
        /\ \A k \in DOMAIN entries : Since(entries[k].createdAt) <= 2 * interval
        /\ rpc = "scan" =>
               \A k \in DOMAIN entries \ todo :
                   Since(entries[k].createdAt) <= interval

\* C4's case: a Get more than 2T after the Add, which misses.
C4_Witness ==
    \E t \in Threads :
        /\ interval > 0
        /\ Returned(t) /\ Added(key[t])
        /\ Waited(t) > 2 * interval
        /\ Result(t) = Miss

\* C5 No premature eviction: up to T after the latest Add(k, v) the entry is
\* there as added and a Get less than T after it returns (v, true); a key
\* leaves the map only in a step of a reaper pass that visits it, with its
\* age above T.
C5_Kept ==
    /\ \A k \in Keys :
           (Added(k) /\ ~MidStore(k) /\ Since(last[k].createdAt) <= interval)
               => (k \in DOMAIN entries /\ entries[k] = last[k])
    /\ \A t \in Threads :
           (Returned(t) /\ Added(key[t]) /\ Waited(t) < interval)
               => Result(t) = Hit(last[key[t]].val)

C5_RemovedOnlyBySweep ==
    \A k \in DOMAIN entries :
        k \notin DOMAIN entries' =>
            /\ rpc = "scan" /\ Reaper \in mu
            /\ k \in todo /\ k \notin todo'
            /\ Since(entries[k].createdAt) > interval

C5_NoPrematureEviction == [] C5_Kept /\ [][C5_RemovedOnlyBySweep]_vars

\* C5's case: the pass of the tick that fired at this instant has visited an
\* entry whose age is exactly T, and left it.
C5_Witness ==
    /\ interval > 0
    /\ rpc = "scan" /\ ~tickerC /\ nextTick = now + interval
    /\ \E k \in DOMAIN entries \ todo : Since(entries[k].createdAt) = interval

\* C6 Lazy expiry on read: a Get of a key that is in the map returns its
\* payload with found = true, whatever the age of the entry.
C6_LazyExpiryOnRead ==
    \A t \in Threads :
        (Returned(t) /\ key[t] \in DOMAIN entries)
            => Result(t) = Hit(entries[key[t]].val)

\* C6's case: a hit on an entry that was older than T at the lookup.
C6_Witness ==
    \E t \in Threads :
        /\ interval > 0
        /\ Returned(t) /\ key[t] \in DOMAIN entries
        /\ ret[t].at - entries[key[t]].createdAt > interval
        /\ Result(t) = Hit(entries[key[t]].val)

\* A step of whoever holds the mutex.
HolderStep ==
    \/ \E t \in Threads \cap mu :
           \/ AddStoreCreatedAt(t) \/ AddStoreVal(t) \/ AddUnlock(t)
           \/ GetLookup(t) \/ GetUnlock(t)
    \/ Reaper \in mu /\ (ReapUnlock \/ \E k \in Keys : ReapVisit(k))

\* C7 Concurrent safety (retention T > 0, so that the reaper runs): the
\* process stays up, whoever holds the mutex can take its next step, a caller
\* outside Add and Get and a reaper waiting for a tick hold no mutex, and a
\* Get that finds a key returns the payload of one Add of that key.
C7_ConcurrentSafety ==
    interval > 0 =>
        /\ alive
        /\ mu # {} => ENABLED HolderStep
        /\ rpc \in {"start", "wait", "lock"} => Reaper \notin mu
        /\ \A t \in Threads : pc[t] = "idle" => t \notin mu
        /\ \A t \in Threads :
               (Returned(t) /\ ret[t].found)
                   => (ret[t].val # NilBuf /\ ret[t].val = last[key[t]].val)

\* C7's case: a Get has found a key while the reaper, its tick taken, is
\* blocked in c.mu.Lock().
C7_Witness ==
    \E t \in Threads :
        /\ Returned(t) /\ ret[t].found
        /\ rpc = "lock"

\* The slot of a key: its entry, or NoLast when the key is absent.
EntryAt(k) == IF k \in DOMAIN entries THEN entries[k] ELSE NoLast

\* This step is a write of Add(a, _), or the reaper's visit of a.
ActsOn(a) ==
    \/ \E t \in Threads :
           key[t] = a /\ pc[t] \in {"add_ts", "add_val"} /\ pc'[t] # pc[t]
    \/ rpc = "scan" /\ a \in todo /\ a \notin todo'

\* C8 Independent keys: a write of Add(a, _) and the reaper's visit of a
\* leave presence, payload and timestamp of every other key unchanged.
C8_IndependentKeys ==
    [][\A a \in Keys : ActsOn(a) =>
           \A b \in Keys \ {a} : EntryAt(b)' = EntryAt(b)]_vars

\* C8's case: a pass has evicted one key and left another one.
C8_Witness ==
    \E a \in Keys, b \in Keys :
        /\ a # b
        /\ rpc = "scan" /\ todo = {}
        /\ Added(a) /\ a \notin DOMAIN entries
        /\ b \in DOMAIN entries

\* C9 Payload immutability: as long as no Add and no sweep changes the map,
\* the bytes a Get(k) returns stay the same.
C9_PayloadImmutable ==
    [][entries' = entries =>
          \A k \in DOMAIN entries :
              entries[k].val # NilBuf => heap'[entries[k].val] = heap[entries[k].val]]_vars

\* C10 Degenerate retention: a cache made with retention <= 0 keeps running.
C10_DegenerateRetentionRuns == interval <= 0 => alive

\* C11 Construction: the cache starts with no entry (no key is present before
\* its first Add), its one sweeper keeps running (it never brings itself and
\* the process down), and no step changes the retention interval.
C11_Construction ==
    /\ [](\A k \in Keys : ~Added(k) => k \notin DOMAIN entries)
    /\ [](rpc \in {"start", "wait", "lock", "scan"} /\ alive)
    /\ [][interval' = interval]_vars

\* A caller is inside the critical section of Add, of Get.
InAdd(t) == pc[t] \in {"add_ts", "add_val", "add_unlock"}
InGet(t) == pc[t] \in {"get_lookup", "get_unlock"}

\* The reaper is inside its pass.
InPass == rpc = "scan"

\* Who is inside a critical section.
Inside == {t \in Threads : InAdd(t) \/ InGet(t)} \cup
          (IF InPass THEN {Reaper} ELSE {})

C14_OneInside == Cardinality(Inside) <= 1 /\ mu = Inside

\* From its Lock to its Unlock a pass sees no step of Add or Get, and the map
\* changes only by the pass's own deletions.
C14_PassAtomic ==
    InPass =>
        /\ UNCHANGED callerVars
        /\ \A k \in DOMAIN entries' : k \in DOMAIN entries /\ entries'[k] = entries[k]
        /\ DOMAIN entries \ DOMAIN entries' \subseteq todo \ todo'

\* C14 Single lock, atomic sweep: at most one of Add, Get and the sweep pass
\* is inside its critical section, and it is the holder of the one mutex; no
\* Add or Get takes a step between the Lock and the Unlock of a pass.
C14_SingleLockAtomicSweep ==
    [] C14_OneInside /\ [][C14_PassAtomic]_vars

\* C14's case: the reaper is in the middle of a pass, one key evicted and
\* another one still to visit.
C14_Witness ==
    \E a \in Keys, b \in Keys :
        /\ InPass /\ mu = {Reaper}
        /\ Added(a) /\ a \notin DOMAIN entries /\ a \notin todo
        /\ b \in todo /\ b \in DOMAIN entries

\* An Add of k has the mutex and has not finished its two writes.
Storing(k) == \E t \in Threads : key[t] = k /\ pc[t] \in {"add_ts", "add_val"}

\* C15 Last writer wins: once the Adds of a key have done their writes, the
\* entry, until a sweep removes it, holds the payload of the Add that got the
\* mutex last, and a Get that finds the key returns that payload; every step
\* inside Add or Get is taken by the holder of the mutex, so the operations
\* take effect in the order in which they got it.
C15_LastWriterWins ==
    /\ \A k \in DOMAIN entries : ~Storing(k) => entries[k].val = order[k]
    /\ \A t \in Threads :
           (Returned(t) /\ ret[t].found) => ret[t].val = order[key[t]]
    /\ \A t \in Threads : (InAdd(t) \/ InGet(t)) => mu = {t}

\* C15's case: the Add that got the mutex last has replaced the payload of an
\* earlier Add of the same key by a different one.
C15_Witness ==
    \E t \in Threads :
        /\ pc[t] = "add_unlock"
        /\ old[t] # NilBuf /\ old[t] # buf[t]
        /\ order[key[t]] = buf[t]
        /\ entries[key[t]].val = buf[t]

\* This step is a step of a Get.
GetStep ==
    \E t \in Threads :
        /\ pc'[t] # pc[t]
        /\ pc'[t] = "get_lookup" \/ InGet(t)

\* The reaper visits k, present with the timestamp of its latest Add and
\* older than the interval.
VisitsOverdue(k) ==
    /\ InPass /\ k \in todo /\ k \notin todo'
    /\ k \in DOMAIN entries
    /\ now - last[k].createdAt > interval

\* C16 Get is read-only: no step of a Get changes the entry map, timestamps
\* included, so every entry keeps the timestamp of its latest Add and the
\* pass that visits it at an age above the retention evicts it.
C16_GetReadOnly ==
    /\ [](\A k \in DOMAIN entries : entries[k].createdAt = last[k].createdAt)
    /\ [][GetStep => entries' = entries]_vars
    /\ [][\A k \in Keys : VisitsOverdue(k) => k \notin DOMAIN entries']_vars

\* C16's case: a Get has read an entry older than the retention, which still
\* has the timestamp of its Add, while the reaper, its tick taken, waits for
\* the mutex to run the pass that evicts it.
C16_Witness ==
    \E t \in Threads :
        /\ Returned(t) /\ ret[t].found
        /\ entries[key[t]].createdAt = last[key[t]].createdAt
        /\ ret[t].at - last[key[t]].createdAt > interval
        /\ rpc = "lock" /\ interval > 0

\* The callback of the line read last has returned.
Finished == mpc = "prompt"

\* The commands that go through the fetch layer.
Fetching == Cmd \in {"map", "mapb", "explore"}

\* The ways a fetch fails before there is a body.
FetchErrors == {"transport", "status", "read"}

\* C12 Cache before network: a command makes a network request only after a
\* lookup of the URL that missed, and none after a hit.
C12_CacheBeforeNetwork ==
    /\ reqs > 0 => looked = "miss"
    /\ looked = "hit" => reqs = 0

\* Main is between the Lock and the second write of an Add.
MainStoring == pc[Main] \in {"add_ts", "add_val"}

\* C13 Fetch layer: after a miss map, mapb and explore make one request; a
\* transport error, a non-200 status or a failed read is returned as an error
\* without a call of Add; a 200 response read in full is followed by one
\* Add(url, body), and whatever the cache holds under a key is a body served
\* for that key and handed to the latest Add of it.
C13_FetchLayer ==
    /\ Fetching =>
        /\ reqs <= 1 /\ adds <= 1
        /\ (looked = "miss" /\ mpc # "request") => reqs = 1
        /\ reqs = 1 => looked = "miss"
        /\ (Finished /\ reqs = 1) =>
               \/ err \in FetchErrors /\ adds = 0 /\ (resp # StatusOK \/ served = NilBuf)
               \/ err \notin FetchErrors /\ adds = 1 /\ resp = StatusOK
        /\ adds = 1 => (served # NilBuf /\ data = served /\ resp = StatusOK)
        /\ pc[Main] \in {"add_ts", "add_val", "add_unlock"} =>
               (key[Main] = url /\ buf[Main] = served /\ served \in Serves(url))
    /\ \A k \in DOMAIN entries :
           /\ k \in Urls
           /\ ~(MainStoring /\ key[Main] = k) =>
                  (entries[k].val \in Serves(k) /\ entries[k].val = order[k])

\* C13's case: a map that missed has made its one request, got a 200 and
\* added the body, next to an entry of an earlier command.
C13_Witness ==
    /\ Finished /\ Cmd = "map"
    /\ looked = "miss" /\ reqs = 1 /\ adds = 1
    /\ url \in DOMAIN entries /\ entries[url].val = served
    /\ Cardinality(DOMAIN entries) >= 2

\* The entry that failed to decode has been in the cache since the command
\* started: it is there, and not from an Add of this command.
StillCached ==
    /\ again \in DOMAIN entries
    /\ ~(adds = 1 /\ url = again)

\* C17 Payloads cached before decoded: a 200 body that map, mapb or explore
\* fails to decode has been added under the url, and the same command given
\* again while that entry is cached hits the cache, makes no request and
\* returns the decode error again.
C17_RepeatHitsCache ==
    /\ (Finished /\ Fetching /\ err = "decode" /\ looked = "miss") =>
           (adds = 1 /\ order[url] = data)
    /\ (Finished /\ again # NoKey /\ StillCached) =>
           (looked = "hit" /\ reqs = 0 /\ err = "decode")

\* C18 Pagination guards: map with a page loaded and no next link, and mapb
\* with no previous link, return their error with no lookup, no request and
\* no Add; these errors and the fetch errors of map and mapb leave config as
\* it was; with no page loaded map asks for the base URL.
C18_PaginationGuards ==
    /\ (Cmd = "map" /\ mpc # "dispatch") =>
           /\ (snap.config.locations /\ snap.config.next = NoKey)
                  <=> (Finished /\ err = "no more")
           /\ ~snap.config.locations => url = BaseUrl
    /\ (Cmd = "mapb" /\ mpc # "dispatch") =>
           (snap.config.previous = NoKey <=> (Finished /\ err = "no previous"))
    /\ err \in {"no more", "no previous"} =>
           (looked = "" /\ reqs = 0 /\ adds = 0 /\ url = NoKey)
    /\ (Cmd \in {"map", "mapb"}
            /\ err \in {"no more", "no previous"} \cup FetchErrors) =>
           config = snap.config

\* C18's case: the listing has been paged to its end and one more map has
\* returned its error.
C18_Witness ==
    /\ Finished /\ Cmd = "map" /\ err = "no more"
    /\ config.previous # NoKey /\ config.locations
    /\ entries # <<>>

\* A catch has thrown its ball at detail.name, not caught before.
C19_Thrown == Finished /\ Cmd = "catch" /\ draw >= 0

\* This step puts a name into the collection.
C19_Catches(n) == n \notin userPokedex /\ n \in userPokedex'

\* C19 Catch outcome: the throw catches exactly when the draw is below 100
\* minus the base experience, so never at 100 or more and always at 0 or
\* less; a name enters the collection only by a throw at it that catches,
\* none leaves it, and inspect changes nothing.
C19_CatchOutcome ==
    /\ [](C19_Thrown =>
            /\ detail.name \notin snap.userPokedex =>
                   (detail.name \in userPokedex <=> draw < 100 - detail.be)
            /\ (detail.be >= 100 /\ detail.name \notin snap.userPokedex) =>
                   detail.name \notin userPokedex
            /\ detail.be <= 0 => detail.name \in userPokedex)
    /\ [][/\ userPokedex \subseteq userPokedex'
          /\ \A n \in Names : C19_Catches(n) =>
                 (mpc = "throw" /\ detail.name = n /\ draw' < 100 - detail.be)
          /\ (Cmd = "inspect" /\ mpc = "dispatch") =>
                 UNCHANGED <<userPokedex, config, entries>>]_vars

\* An empty line, an unknown command or the end of input has been answered,
\* or a callback has returned an error.
C20_Quiet == Finished /\ (Cmd \notin Commands \/ err # "")

\* The process ends only in commandExit; an error is followed by the prompt;
\* at the end of input the line read is empty.
C20_LoopGoesOn ==
    /\ ~alive => (exited /\ Cmd = "exit")
    /\ err # "" => Finished
    /\ eof => line = <<>>
    /\ C20_Quiet => alive

\* C20 REPL lifetime: only exit ends the loop; an empty line, an unknown
\* command, a command returning an error and exhausted input leave the
\* cache, the pagination state and the caught collection as they were.
C20_ReplLifetime ==
    /\ C20_LoopGoesOn
    /\ C20_Quiet =>
           (adds = 0 /\ config = snap.config /\ userPokedex = snap.userPokedex)

\* C20 as amended: the same, except that a command returning a decode error
\* has added the body to the cache when it fetched one (map, mapb, explore)
\* and, in map and mapb, may have changed the pagination state.
C20_ReplLifetimeAmended ==
    /\ C20_LoopGoesOn
    /\ C20_Quiet =>
           /\ userPokedex = snap.userPokedex
           /\ err # "decode" => (adds = 0 /\ config = snap.config)
           /\ err = "decode" =>
                  /\ Cmd \in {"map", "mapb", "explore", "catch"}
                  /\ Cmd \in {"explore", "catch"} => config = snap.config
                  /\ Cmd = "catch" => adds = 0
                  /\ Fetching => (adds = 1 <=> looked = "miss")

\* C20's case: the last line os.Stdin holds has returned a decode error, its
\* body added and the pagination changed, and the loop is still running.
C20_Witness ==
    /\ alive /\ Finished
    /\ err = "decode" /\ adds = 1 /\ config # snap.config
    /\ nread = MaxInput

====
